---- MODULE Spec2Model ----
(***************************************************************************)
(* Model of the project import/merge engine of ModbusTools:                *)
(*   src/src/core/gui/core_ui.cpp        (mbCoreUi menu slots)             *)
(*   src/src/client/project/client_builder.cpp (mbClientBuilder)           *)
(*                                                                         *)
(* The project is three lists (devices, ports, data views).  An entity is  *)
(* identified by its position in its list: the import never removes or     *)
(* reorders entities, so "the same instance" is "the same position".       *)
(* A port's device list is the set of positions of the attached devices.   *)
(*                                                                         *)
(* menuSlotFileImportProject suspends at every collision prompt.  It is    *)
(* modelled as one step per iteration of its three Q_FOREACH loops; while  *)
(* it runs (pc # "idle") no other slot can run.  The nodes of the loaded   *)
(* document are inputs: each loop draws its next node when it reaches it,  *)
(* and `dom` keeps the device nodes iterated so far, which the final       *)
(* importDomProject pass iterates again.                                   *)
(*                                                                         *)
(* The data view item slots act on `items`, the items of the first data    *)
(* view, and on `clipboard`; a settings dictionary is a function from the  *)
(* keys it holds to their values.                                          *)
(*                                                                         *)
(* The recent projects menu is the sequence of its actions, a path action  *)
(* being its path, and the map m_recentProjectActions the set of its keys. *)
(* `question` observes what the latest slot did about saving the project.  *)
(***************************************************************************)
EXTENDS Integers, Sequences, FiniteSets, TLC

\* ------------------------------------------------------------------ bounds
MaxDomNodes == 3        \* document nodes (all kinds) imported into one project
MaxPorts == 2           \* ports of the project that menuSlotPortImport adds to
MaxDataViews == 2       \* data views of the project that the data view slots add to
MaxDocNodes == 2        \* device nodes, and port nodes, of a loaded project file
MaxItems == 2           \* items of the first data view
MaxSeeded == 18         \* paths of the recent list found in the settings file

Names == {"a", "b"}

\* --------------------------------------------------- mbCoreDialogReplace
\* m_dialogs->replace(...) returns r <= 0 for Cancel, else one of six codes.
Cancel == "Cancel"
Replace == "Replace"
ReplaceAll == "ReplaceAll"
Rename == "Rename"
RenameAll == "RenameAll"
Skip == "Skip"
SkipAll == "SkipAll"
Answers == {Cancel, Replace, ReplaceAll, Rename, RenameAll, Skip, SkipAll}
AllAnswers == {ReplaceAll, RenameAll, SkipAll}
\* applyToAll = -1
Ask == "Ask"
\* `last.r` of an incoming node that did not collide
NoCollision == "NoCollision"

\* Document nodes (settings dictionaries).  Besides its name a device node
\* carries portName, a port or data view node one setting cfg.  Imported
\* nodes carry cfg 1 and project files cfg 0, so that a fill shows.
DomDevice == [name : Names, portName : Names]
DomPort == [name : Names, cfg : {1}]
DomDataView == [name : Names, cfg : {1}]

VARIABLES
    isRunning,      \* m_core->isRunning()
    m_project,      \* TRUE iff m_project # nullptr
    modified,       \* m_project->isModified()
    devices,        \* m_project->devices(): Seq of [name, portName]
    ports,          \* m_project->ports(): Seq of [name, cfg, devs]
    dataViews,      \* m_project->dataViews(): Seq of [name, cfg]
    pc,             \* position inside menuSlotFileImportProject
    applyToAll,     \* local int applyToAll
    dom,            \* dom->devices() iterated so far
    nMerged,        \* bound: document nodes iterated by imports into this project
    stat,           \* observation: prompts/collisions/replaces of the current loop,
                    \*   whether an earlier loop of this import memoized an All
                    \*   answer, and how each device node of `dom` was resolved
    last,           \* observation: the node handled by the latest loop iteration
    changed,        \* observation: the latest import has replaced or added an entity
    items,          \* the items of the first data view: Seq of [address, length, value]
    clipboard,      \* QApplication::clipboard(): the data view item nodes of its text
    absPath,        \* m_project->absoluteFilePath(), "" when there is none
    m_menuRecent,   \* m_menuRecent->actions(): Seq of actions, a path action is its path
    m_recentProjectActions, \* the keys of the map m_recentProjectActions
    question        \* observation: the save question of the latest slot

vars == <<isRunning, m_project, modified, devices, ports, dataViews,
          pc, applyToAll, dom, nMerged, stat, last, changed, items, clipboard,
          absPath, m_menuRecent, m_recentProjectActions, question>>

itemVars == <<items, clipboard>>

recentVars == <<m_menuRecent, m_recentProjectActions>>

NoStat == [prompts |-> 0, collisions |-> 0, replaced |-> 0, prevAll |-> FALSE, devR |-> <<>>]
NoLast == [kind |-> "none", r |-> "none"]

\* ----------------------------------------------------------- mbCoreProject
Index(list, name) ==
    IF \E i \in 1..Len(list) : list[i].name = name
    THEN CHOOSE i \in 1..Len(list) :
            /\ list[i].name = name
            /\ \A j \in 1..(i-1) : list[j].name # name
    ELSE 0

hasDevice(name) == \E i \in 1..Len(devices) : devices[i].name = name
hasPort(name) == \E i \in 1..Len(ports) : ports[i].name = name
hasDataView(name) == \E i \in 1..Len(dataViews) : dataViews[i].name = name

deviceCore(name) == Index(devices, name)
portCore(name) == Index(ports, name)
dataViewCore(name) == Index(dataViews, name)

deviceAdd(list, v) == Append(list, v)
portAdd(list, v) == Append(list, v)
dataViewAdd(list, v) == Append(list, v)

\* ----------------------------------------------------------- mbCoreBuilder
newDevice == [name |-> "", portName |-> ""]
newPort == [name |-> "", cfg |-> 0, devs |-> {}]
newDataView == [name |-> "", cfg |-> 0]

fillDevice(old, d) == [old EXCEPT !.name = d.name, !.portName = d.portName]
fillPort(old, d) == [old EXCEPT !.name = d.name, !.cfg = d.cfg]
fillDataView(old, d) == [old EXCEPT !.name = d.name, !.cfg = d.cfg]

toDevice(d) == fillDevice(newDevice, d)
toPort(d) == fillPort(newPort, d)
toDataView(d) == fillDataView(newDataView, d)

\* port->deviceAdd(device)
portDeviceAdd(prts, pi, di) == [prts EXCEPT ![pi].devs = @ \cup {di}]

\* ------------------------------------------------- mbClientBuilder wiring
\* mbClientBuilder::fillProject, lines 113-118: every device of the project
\* is attached to the port its portName names, when there is one.
RECURSIVE wireDevices(_, _, _)
wireDevices(i, devs, prts) ==
    IF i > Len(devs) THEN prts
    ELSE LET pi == Index(prts, devs[i].portName)
         IN wireDevices(i + 1, devs,
                        IF pi # 0 THEN portDeviceAdd(prts, pi, i) ELSE prts)

\* mutant: the final pass of the base class, which wires nothing
importDomProjectWiresNothing(ds, devs, prts) == prts

\* mutant: `return` for the implicit `continue` when the port is missing
RECURSIVE importDomProjectStopsAtMissing(_, _, _)
importDomProjectStopsAtMissing(ds, devs, prts) ==
    IF ds = <<>> THEN prts
    ELSE LET pi == Index(prts, Head(ds).portName)
             di == Index(devs, Head(ds).name)
         IN IF pi = 0 THEN prts
            ELSE importDomProjectStopsAtMissing(Tail(ds), devs,
                        IF di # 0 THEN portDeviceAdd(prts, pi, di) ELSE prts)

\* mbClientBuilder::importDomProject: for every device node of the imported
\* document, the project's port of that portName gets the project's device
\* of that name, when both exist.
RECURSIVE importDomProject(_, _, _)
importDomProject(ds, devs, prts) ==
    IF ds = <<>> THEN prts
    ELSE LET pi == Index(prts, Head(ds).portName)
             di == Index(devs, Head(ds).name)
         IN importDomProject(Tail(ds), devs,
                             IF pi # 0 /\ di # 0 THEN portDeviceAdd(prts, pi, di)
                             ELSE prts)

\* ------------------------------------------- project files (FileOpen input)
\* Documents a project file can hold; "bad" does not load.
ProjectFiles == {"p1", "p2", "bad"}
FileLoads(f) == f # "bad"
FileDevices(f) ==
    IF f = "p1" THEN << [name |-> "a", portName |-> "a"] >>
    ELSE << [name |-> "b", portName |-> "b"], [name |-> "a", portName |-> "a"] >>
FilePorts(f) ==
    IF f = "p1" THEN << [name |-> "a", cfg |-> 0] >>
    ELSE << [name |-> "a", cfg |-> 0] >>
FileDataViews(f) ==
    IF f = "p1" THEN << [name |-> "a", cfg |-> 0] >>
    ELSE << >>

\* mutant: the wiring runs before the base fill has materialized the ports
fillProjectDomWiresEarly(ds, ps, vs) ==
    LET devs == [i \in 1..Len(ds) |-> toDevice(ds[i])]
        prts == [i \in 1..Len(ps) |-> toPort(ps[i])]
    IN [devices |-> devs,
        ports |-> wireDevices(1, devs, <<>>) \o prts,
        dataViews |-> [i \in 1..Len(vs) |-> toDataView(vs[i])]]

\* mbClientBuilder::fillProject on a fresh project, from the device, port and
\* data view nodes of the document: the base fill materializes every node,
\* then lines 113-118 wire the devices.
fillProjectDom(ds, ps, vs) ==
    LET devs == [i \in 1..Len(ds) |-> toDevice(ds[i])]
        prts == [i \in 1..Len(ps) |-> toPort(ps[i])]
    IN [devices |-> devs,
        ports |-> wireDevices(1, devs, prts),
        dataViews |-> [i \in 1..Len(vs) |-> toDataView(vs[i])]]

\* mbClientBuilder::fillProject on the document of project file f
fillProject(f) == fillProjectDom(FileDevices(f), FilePorts(f), FileDataViews(f))

\* -------------------------------------------------------- recent projects
RECENT_PROJECTS_COUNT == 20

\* lines 99-101: the menu is made holding the Clear action only
m_actionFileRecentClear == "<Clear>"
NoRecent == [menu |-> << m_actionFileRecentClear >>, map |-> {}]

\* a->data().toString(): the path of a path action, empty for Clear
actionData(a) == IF a = m_actionFileRecentClear THEN "" ELSE a

\* QWidget::removeAction
removeAction(menu, a) ==
    IF \E i \in 1..Len(menu) : menu[i] = a
    THEN LET i == CHOOSE k \in 1..Len(menu) : menu[k] = a
         IN SubSeq(menu, 1, i - 1) \o SubSeq(menu, i + 1, Len(menu))
    ELSE menu

\* QWidget::insertAction(before, a): a is appended when before is not there
insertAction(menu, before, a) ==
    IF \E i \in 1..Len(menu) : menu[i] = before
    THEN LET i == CHOOSE k \in 1..Len(menu) : menu[k] = before
         IN SubSeq(menu, 1, i - 1) \o <<a>> \o SubSeq(menu, i, Len(menu))
    ELSE Append(menu, a)

\* lines 1391-1401
removeRecentFile(r, path) ==
    IF path \in r.map
    THEN [menu |-> removeAction(r.menu, path), map |-> r.map \ {path}]
    ELSE r

\* mutant: the test of the map's size is lost, nothing is evicted
addRecentFileKeepsAll(r, path) ==
    LET r1 == IF path \in r.map
              THEN [menu |-> removeAction(r.menu, path), map |-> r.map]
              ELSE [menu |-> r.menu, map |-> r.map \cup {path}]
        ls == r1.menu
    IN [menu |-> IF Len(ls) > 0 THEN insertAction(r1.menu, ls[1], path)
                 ELSE Append(r1.menu, path),
        map |-> r1.map]

\* lines 1364-1389.  ls is the menu's action list taken at line 1379, after
\* a known action was taken out of the menu and before the eviction.
addRecentFile(r, path) ==
    LET r1 == IF path \in r.map
              THEN [menu |-> removeAction(r.menu, path), map |-> r.map]
              ELSE [menu |-> r.menu, map |-> r.map \cup {path}]
        ls == r1.menu
        r2 == IF Cardinality(r1.map) >= RECENT_PROJECTS_COUNT
              THEN removeRecentFile(r1, actionData(ls[RECENT_PROJECTS_COUNT]))
              ELSE r1
    IN [menu |-> IF Len(ls) > 0 THEN insertAction(r2.menu, ls[1], path)
                 ELSE Append(r2.menu, path),
        map |-> r2.map]

\* the Q_FOREACH of recentClear over the action list ls
RECURSIVE removeRecentFiles(_, _)
removeRecentFiles(r, ls) ==
    IF ls = <<>> THEN r
    ELSE removeRecentFiles(removeRecentFile(r, actionData(Head(ls))), Tail(ls))

\* lines 1403-1409
recentClear(r) == removeRecentFiles(r, removeAction(r.menu, m_actionFileRecentClear))

\* lines 1423-1430: the paths of ls are added from the last to the first
RECURSIVE setCachedSettingsRecentProjects(_, _)
setCachedSettingsRecentProjects(r, ls) ==
    IF ls = <<>> THEN r
    ELSE setCachedSettingsRecentProjects(addRecentFile(r, ls[Len(ls)]),
                                         SubSeq(ls, 1, Len(ls) - 1))

\* the recent menu and map as one value, and their next value
recent == [menu |-> m_menuRecent, map |-> m_recentProjectActions]
setRecent(r) == m_menuRecent' = r.menu /\ m_recentProjectActions' = r.map

\* ------------------------------------------------------- the save question
NoQuestion ==
    [by |-> "none", file |-> "", asked |-> FALSE, res |-> "none", saved |-> FALSE,
     had |-> FALSE, closed |-> FALSE, event |-> "none"]

\* what a slot did about saving: file is the project file the slot was
\* given to open, `had` tells that a project with its modified flag set was
\* open when the slot ran, `asked` that the question box was shown, res the
\* button pressed, `saved` that menuSlotFileSave was called and wrote the
\* project, `closed` that the slot closed or replaced the project that was
\* open, event what closeEvent did with the event
saveQuestion(by, file, ask, res, saved, closed, event) ==
    [by |-> by,
     file |-> file,
     asked |-> ask /\ m_project /\ modified,
     res |-> IF ask /\ m_project /\ modified THEN res ELSE "none",
     saved |-> ask /\ m_project /\ modified /\ res = "Yes" /\ saved,
     had |-> m_project /\ modified,
     closed |-> closed,
     event |-> event]

\* lines 428-434: the file picked in the Save As dialog of a project without
\* path.  What a saved file holds is not tracked: p3 loads as p2's document.
SaveAsFile == "p3"
\* lines 406-421: the path the project is written to
savePath == IF absPath = "" THEN SaveAsFile ELSE absPath
\* lines 1337-1338 with 406-421: the question was answered Yes and
\* menuSlotFileSave wrote the project; `saved` is false when the Save As
\* dialog of a project without path was cancelled (line 432), or when
\* saveCore failed to write a project that has a path
didSave(res, saved) == m_project /\ modified /\ res = "Yes" /\ saved
\* line 419: addRecentFile after a successful save
recentAfterSave(res, saved) ==
    IF didSave(res, saved) THEN addRecentFile(recent, savePath) ELSE recent
\* line 434: setAbsoluteFilePath
pathAfterSave(res, saved) == IF didSave(res, saved) THEN savePath ELSE absPath

\* a slot that shows no save question and leaves the recent list alone
noSaveQuestion ==
    /\ question' = NoQuestion
    /\ UNCHANGED <<absPath, m_menuRecent, m_recentProjectActions>>

\* line 461 inside menuSlotFileImportProject
importSave(res, saved) ==
    /\ question' = saveQuestion("import", "", TRUE, res, saved, FALSE, "none")
    /\ absPath' = pathAfterSave(res, saved)
    /\ setRecent(recentAfterSave(res, saved))

\* ----------------------------------------------------------------- Init
Init ==
    /\ isRunning = FALSE
    /\ m_project = FALSE
    /\ modified = FALSE
    /\ devices = <<>>
    /\ ports = <<>>
    /\ dataViews = <<>>
    /\ pc = "idle"
    /\ applyToAll = Ask
    /\ dom = <<>>
    /\ nMerged = 0
    /\ stat = NoStat
    /\ last = NoLast
    /\ changed = FALSE
    /\ items = <<>>
    /\ clipboard = <<>>
    /\ absPath = ""
    /\ m_menuRecent = NoRecent.menu
    /\ m_recentProjectActions = NoRecent.map
    /\ question = NoQuestion

importVars == <<pc, applyToAll, dom, stat, last, changed>>

\* the observation counters at the start of the next loop of the same import
nextLoopStat ==
    [NoStat EXCEPT !.prevAll = stat.prevAll \/ applyToAll \in AllAnswers,
                   !.devR = stat.devR]

\* checkProjectModifiedAndSave: the project's modified flag afterwards.
\* res is the button of the question box, saved whether menuSlotFileSave
\* got the project written.
checkProjectModifiedAndSave(res, saved) ==
    IF m_project /\ modified /\ res = "Yes" /\ saved THEN FALSE ELSE modified

\* ------------------------------------------------ import: the merge switch
\* mutant: the test `applyToAll < 0` is lost, every collision prompts
promptNeededIgnoresMemo(collide, memo) == collide

\* lines 482-491: the prompt is consulted only while applyToAll < 0
promptNeeded(collide, memo) == collide /\ memo = Ask

\* mutant: every answer is assigned to applyToAll, not only the All ones
switchMemoKeepsAnswer(memo, r) == r

\* lines 494-495, 504-505, 510-511 (541-564 and 590-613 repeat them)
switchMemo(memo, r) == IF r \in AllAnswers THEN r ELSE memo

\* mutant: `needToAdd = false` is lost, Replace adds like Rename
switchActionReplaceAdds(r) ==
    CASE r \in {ReplaceAll, Replace, RenameAll, Rename} -> "add"
      [] OTHER -> "skip"

\* mutant: `break` for `continue`, Skip falls through to the add
switchActionSkipAdds(r) ==
    CASE r \in {ReplaceAll, Replace} -> "fill"
      [] OTHER -> "add"

\* mutant: Rename falls through into the Replace case
switchActionRenameFills(r) ==
    CASE r \in {ReplaceAll, Replace, RenameAll, Rename} -> "fill"
      [] OTHER -> "skip"

\* lines 492-515: what the switch does with r
switchAction(r) ==
    CASE r \in {ReplaceAll, Replace} -> "fill"
      [] r \in {RenameAll, Rename} -> "add"
      [] OTHER -> "skip"

\* mutant: the switch runs whether or not the name collides
nodeActionIgnoresCollide(collide, r) == switchAction(r)

\* lines 478, 517: needToAdd stays true when the name does not collide
nodeAction(collide, r) == IF collide THEN switchAction(r) ELSE "add"

\* mutant: `return` is lost, Cancel reaches the switch's default
cancelledNever(ask, r) == FALSE

\* lines 487-488: r <= 0 returns from the slot
cancelled(ask, r) == ask /\ r = Cancel

observe(kind, name, val, collide, ask, r, act) ==
    /\ stat' = [prompts |-> stat.prompts + (IF ask THEN 1 ELSE 0),
                collisions |-> stat.collisions + (IF collide THEN 1 ELSE 0),
                replaced |-> stat.replaced + (IF act = "fill" THEN 1 ELSE 0),
                prevAll |-> stat.prevAll,
                devR |-> IF kind = "device"
                         THEN Append(stat.devR, IF collide THEN r ELSE NoCollision)
                         ELSE stat.devR]
    /\ last' = [kind |-> kind, name |-> name, val |-> val, asked |-> ask,
                r |-> IF collide THEN r ELSE NoCollision]
    /\ changed' = (changed \/ act \in {"fill", "add"})

\* mutant: the Cancel path runs importDomProject before it returns
importReturnRewires(kind) ==
    /\ pc' = "idle"
    /\ applyToAll' = Ask
    /\ dom' = <<>>
    /\ stat' = NoStat
    /\ last' = [kind |-> kind, r |-> Cancel]
    /\ ports' = importDomProject(dom, devices, ports)
    /\ UNCHANGED <<isRunning, m_project, modified, devices, dataViews, nMerged, changed>>

\* return at lines 488, 537, 586
importReturn(kind) ==
    /\ pc' = "idle"
    /\ applyToAll' = Ask
    /\ dom' = <<>>
    /\ stat' = NoStat
    /\ last' = [kind |-> kind, r |-> Cancel]
    /\ UNCHANGED <<isRunning, m_project, modified, devices, ports, dataViews, nMerged, changed>>

\* -------------------------------------------- menuSlotFileImportProject
\* mutant: the port loop comes first
importStartAtPorts(res, saved) ==
    /\ pc = "idle"
    /\ ~isRunning
    /\ modified' = checkProjectModifiedAndSave(res, saved)
    /\ pc' = IF m_project THEN "ports" ELSE "crashed"
    /\ applyToAll' = Ask
    /\ dom' = <<>>
    /\ stat' = NoStat
    /\ last' = NoLast
    /\ changed' = FALSE
    /\ UNCHANGED <<isRunning, m_project, devices, ports, dataViews, nMerged>>
    /\ UNCHANGED itemVars
    /\ importSave(res, saved)

\* lines 459-475: guard, save question, file dialog, loadXml; the device
\* loop is entered with applyToAll = -1.  Without a project the first use
\* of m_project (line 479 or 622) dereferences a null pointer.
importStart(res, saved) ==
    /\ pc = "idle"
    /\ ~isRunning
    /\ modified' = checkProjectModifiedAndSave(res, saved)
    /\ pc' = IF m_project THEN "devices" ELSE "crashed"
    /\ applyToAll' = Ask
    /\ dom' = <<>>
    /\ stat' = NoStat
    /\ last' = NoLast
    /\ changed' = FALSE
    /\ UNCHANGED <<isRunning, m_project, devices, ports, dataViews, nMerged>>
    /\ UNCHANGED itemVars
    /\ importSave(res, saved)

\* mutant: the name is looked up among the devices the project had when the
\* import began, the devices added since are not seen
importDeviceOnSnapshot(d, answer) ==
    /\ pc = "devices"
    /\ nMerged < MaxDomNodes
    /\ LET added == Cardinality({k \in 1..Len(stat.devR) :
                                    stat.devR[k] \in {NoCollision, Rename, RenameAll}})
           collide == \E i \in 1..(Len(devices) - added) : devices[i].name = d.name
           ask == promptNeeded(collide, applyToAll)
           r == IF ask THEN answer ELSE applyToAll
           act == nodeAction(collide, r)
       IN /\ ask \/ answer = Skip
          /\ IF cancelled(ask, r)
             THEN importReturn("device")
             ELSE /\ devices' =
                        CASE act = "fill" ->
                               [devices EXCEPT ![deviceCore(d.name)] = fillDevice(@, d)]
                          [] act = "add" -> deviceAdd(devices, toDevice(d))
                          [] OTHER -> devices
                  /\ applyToAll' = IF collide THEN switchMemo(applyToAll, r) ELSE applyToAll
                  /\ dom' = Append(dom, d)
                  /\ nMerged' = nMerged + 1
                  /\ observe("device", d.name, d.portName, collide, ask, r, act)
                  /\ UNCHANGED <<isRunning, m_project, modified, ports, dataViews, pc>>
    /\ UNCHANGED itemVars
    /\ noSaveQuestion

\* lines 476-522: one iteration of the device loop on node d
importDevice(d, answer) ==
    /\ pc = "devices"
    /\ nMerged < MaxDomNodes
    /\ LET collide == hasDevice(d.name)
           ask == promptNeeded(collide, applyToAll)
           r == IF ask THEN answer ELSE applyToAll
           act == nodeAction(collide, r)
       IN /\ ask \/ answer = Skip
          /\ IF cancelled(ask, r)
             THEN importReturn("device")
             ELSE /\ devices' =
                        CASE act = "fill" ->
                               [devices EXCEPT ![deviceCore(d.name)] = fillDevice(@, d)]
                          [] act = "add" -> deviceAdd(devices, toDevice(d))
                          [] OTHER -> devices
                  /\ applyToAll' = IF collide THEN switchMemo(applyToAll, r) ELSE applyToAll
                  /\ dom' = Append(dom, d)
                  /\ nMerged' = nMerged + 1
                  /\ observe("device", d.name, d.portName, collide, ask, r, act)
                  /\ UNCHANGED <<isRunning, m_project, modified, ports, dataViews, pc>>
    /\ UNCHANGED itemVars
    /\ noSaveQuestion

\* mutant: applyToAll is not set back to -1 between the loops
importDevicesDoneKeepsMemo ==
    /\ pc = "devices"
    /\ pc' = "ports"
    /\ applyToAll' = applyToAll
    /\ stat' = nextLoopStat
    /\ last' = NoLast
    /\ UNCHANGED <<isRunning, m_project, modified, devices, ports, dataViews, dom, nMerged, changed>>
    /\ UNCHANGED itemVars
    /\ noSaveQuestion

\* line 524: the device loop is over, applyToAll = -1 again
importDevicesDone ==
    /\ pc = "devices"
    /\ pc' = "ports"
    /\ applyToAll' = Ask
    /\ stat' = nextLoopStat
    /\ last' = NoLast
    /\ UNCHANGED <<isRunning, m_project, modified, devices, ports, dataViews, dom, nMerged, changed>>
    /\ UNCHANGED itemVars
    /\ noSaveQuestion

\* lines 525-571: one iteration of the port loop on node d
importPort(d, answer) ==
    /\ pc = "ports"
    /\ nMerged < MaxDomNodes
    /\ LET collide == hasPort(d.name)
           ask == promptNeeded(collide, applyToAll)
           r == IF ask THEN answer ELSE applyToAll
           act == nodeAction(collide, r)
       IN /\ ask \/ answer = Skip
          /\ IF cancelled(ask, r)
             THEN importReturn("port")
             ELSE /\ ports' =
                        CASE act = "fill" ->
                               [ports EXCEPT ![portCore(d.name)] = fillPort(@, d)]
                          [] act = "add" -> portAdd(ports, toPort(d))
                          [] OTHER -> ports
                  /\ applyToAll' = IF collide THEN switchMemo(applyToAll, r) ELSE applyToAll
                  /\ nMerged' = nMerged + 1
                  /\ observe("port", d.name, d.cfg, collide, ask, r, act)
                  /\ UNCHANGED <<isRunning, m_project, modified, devices, dataViews, pc, dom>>
    /\ UNCHANGED itemVars
    /\ noSaveQuestion

\* line 573: the port loop is over, applyToAll = -1 again
importPortsDone ==
    /\ pc = "ports"
    /\ pc' = "dataViews"
    /\ applyToAll' = Ask
    /\ stat' = nextLoopStat
    /\ last' = NoLast
    /\ UNCHANGED <<isRunning, m_project, modified, devices, ports, dataViews, dom, nMerged, changed>>
    /\ UNCHANGED itemVars
    /\ noSaveQuestion

\* lines 574-620: one iteration of the data view loop on node d
importDataView(d, answer) ==
    /\ pc = "dataViews"
    /\ nMerged < MaxDomNodes
    /\ LET collide == hasDataView(d.name)
           ask == promptNeeded(collide, applyToAll)
           r == IF ask THEN answer ELSE applyToAll
           act == nodeAction(collide, r)
       IN /\ ask \/ answer = Skip
          /\ IF cancelled(ask, r)
             THEN importReturn("dataView")
             ELSE /\ dataViews' =
                        CASE act = "fill" ->
                               [dataViews EXCEPT ![dataViewCore(d.name)] = fillDataView(@, d)]
                          [] act = "add" -> dataViewAdd(dataViews, toDataView(d))
                          [] OTHER -> dataViews
                  /\ applyToAll' = IF collide THEN switchMemo(applyToAll, r) ELSE applyToAll
                  /\ nMerged' = nMerged + 1
                  /\ observe("dataView", d.name, d.cfg, collide, ask, r, act)
                  /\ UNCHANGED <<isRunning, m_project, modified, devices, ports, pc, dom>>
    /\ UNCHANGED itemVars
    /\ noSaveQuestion

\* mutant: the flag is set only when a loop added or replaced an entity
importFinishFlagsChanges ==
    /\ pc = "dataViews"
    /\ ports' = importDomProject(dom, devices, ports)
    /\ modified' = (modified \/ changed)
    /\ pc' = "idle"
    /\ applyToAll' = Ask
    /\ dom' = <<>>
    /\ stat' = NoStat
    /\ last' = NoLast
    /\ UNCHANGED <<isRunning, m_project, devices, dataViews, nMerged, changed>>
    /\ UNCHANGED itemVars
    /\ noSaveQuestion

\* lines 621-622: importDomProject(dom.data()); setModifiedFlag(true)
importFinish ==
    /\ pc = "dataViews"
    /\ ports' = importDomProject(dom, devices, ports)
    /\ modified' = TRUE
    /\ pc' = "idle"
    /\ applyToAll' = Ask
    /\ dom' = <<>>
    /\ stat' = NoStat
    /\ last' = NoLast
    /\ UNCHANGED <<isRunning, m_project, devices, dataViews, nMerged, changed>>
    /\ UNCHANGED itemVars
    /\ noSaveQuestion

\* observation of an import slot that got no document; n tells two in a row apart
noDocument(kind) ==
    [kind |-> kind, r |-> "NoDocument", n |-> IF last.r = "NoDocument" THEN 1 - last.n ELSE 0]

\* mutant: the slot goes on to line 622 although nothing was loaded
importNoDocumentSetsModified(res, saved) ==
    /\ pc = "idle"
    /\ ~isRunning
    /\ modified' = TRUE
    /\ last' = noDocument("project")
    /\ UNCHANGED <<isRunning, m_project, devices, ports, dataViews, nMerged>>
    /\ UNCHANGED <<pc, applyToAll, dom, stat, changed>>
    /\ UNCHANGED itemVars
    /\ importSave(res, saved)

\* lines 466, 471: no file picked, or loadXml fails
importNoDocument(res, saved) ==
    /\ pc = "idle"
    /\ ~isRunning
    /\ modified' = checkProjectModifiedAndSave(res, saved)
    /\ last' = noDocument("project")
    /\ UNCHANGED <<isRunning, m_project, devices, ports, dataViews, nMerged>>
    /\ UNCHANGED <<pc, applyToAll, dom, stat, changed>>
    /\ UNCHANGED itemVars
    /\ importSave(res, saved)

\* -------------------------------------------------------- other menu slots
\* m_core->setProjectCore(p) -> setProject(p).  path is the absolute file
\* path of p, r the recent list when setProject is reached; lines 1156-1158
\* add the path to it.
setProject(open, p, flag, path, r) ==
    /\ m_project' = open
    /\ devices' = p.devices
    /\ ports' = p.ports
    /\ dataViews' = p.dataViews
    /\ modified' = flag
    /\ nMerged' = 0
    /\ items' = <<>>
    /\ absPath' = path
    /\ setRecent(IF open /\ path # "" THEN addRecentFile(r, path) ELSE r)

NoProject == [devices |-> <<>>, ports |-> <<>>, dataViews |-> <<>>]

\* lines 365-377: the dialog gave settings for the new project
menuSlotFileNew ==
    /\ pc = "idle"
    /\ ~isRunning
    /\ setProject(TRUE, NoProject, TRUE, "", recent)
    /\ question' = saveQuestion("FileNew", "", FALSE, "none", FALSE, m_project, "none")
    /\ changed' = FALSE
    /\ UNCHANGED <<isRunning, pc, applyToAll, dom, stat, last>>
    /\ UNCHANGED clipboard

\* lines 379-393 with openProject/closeProject (1346-1362)
menuSlotFileOpen(f, res, saved) ==
    /\ pc = "idle"
    /\ ~isRunning
    /\ IF f = ""
       THEN /\ modified' = checkProjectModifiedAndSave(res, saved)
            /\ absPath' = pathAfterSave(res, saved)
            /\ setRecent(recentAfterSave(res, saved))
            /\ UNCHANGED <<m_project, devices, ports, dataViews, nMerged, changed, items>>
       ELSE /\ IF FileLoads(f)
               THEN setProject(TRUE, fillProject(f), FALSE, f, recentAfterSave(res, saved))
               ELSE setProject(FALSE, NoProject, FALSE, "",
                               removeRecentFile(recentAfterSave(res, saved), f))
            /\ changed' = FALSE
    /\ question' = saveQuestion("FileOpen", f, TRUE, res, saved, m_project /\ f # "", "none")
    /\ UNCHANGED <<isRunning, pc, applyToAll, dom, stat, last>>
    /\ UNCHANGED clipboard

menuSlotFileClose(res, saved) ==
    /\ pc = "idle"
    /\ ~isRunning
    /\ IF m_project /\ modified /\ res = "Cancel"
       THEN UNCHANGED <<m_project, devices, ports, dataViews, modified, nMerged, changed, items,
                        absPath, m_menuRecent, m_recentProjectActions>>
       ELSE /\ setProject(FALSE, NoProject, FALSE, "", recentAfterSave(res, saved))
            /\ changed' = FALSE
    /\ question' = saveQuestion("FileClose", "", TRUE, res, saved,
                                m_project /\ ~(modified /\ res = "Cancel"), "none")
    /\ UNCHANGED <<isRunning, pc, applyToAll, dom, stat, last>>
    /\ UNCHANGED clipboard

menuSlotFileEdit ==
    /\ pc = "idle"
    /\ ~isRunning
    /\ m_project
    /\ modified' = TRUE
    /\ UNCHANGED <<isRunning, m_project, devices, ports, dataViews, nMerged, importVars>>
    /\ UNCHANGED itemVars
    /\ noSaveQuestion

\* lines 707-725: ok when a file was picked and importPort(file) gave the
\* port of node d
menuSlotPortImport(d, ok) ==
    /\ pc = "idle"
    /\ ~isRunning
    /\ m_project
    /\ IF ok
       THEN /\ Len(ports) < MaxPorts
            /\ ports' = portAdd(ports, toPort(d))
            /\ modified' = TRUE
            /\ UNCHANGED last
       ELSE /\ UNCHANGED <<ports, modified>>
            /\ last' = noDocument("port")
    /\ UNCHANGED <<isRunning, m_project, devices, dataViews, nMerged>>
    /\ UNCHANGED <<pc, applyToAll, dom, stat, changed>>
    /\ UNCHANGED itemVars
    /\ noSaveQuestion

\* lines 914-926: the dialog gave settings s
menuSlotDataViewNew(s) ==
    /\ pc = "idle"
    /\ m_project
    /\ Len(dataViews) < MaxDataViews
    /\ dataViews' = dataViewAdd(dataViews, fillDataView(newDataView, s))
    /\ modified' = TRUE
    /\ UNCHANGED <<isRunning, m_project, devices, ports, nMerged, importVars>>
    /\ UNCHANGED itemVars
    /\ noSaveQuestion

\* lines 942-949
menuSlotDataViewInsert ==
    /\ pc = "idle"
    /\ m_project
    /\ Len(dataViews) < MaxDataViews
    /\ dataViews' = dataViewAdd(dataViews, newDataView)
    /\ modified' = TRUE
    /\ UNCHANGED <<isRunning, m_project, devices, ports, nMerged, importVars>>
    /\ UNCHANGED itemVars
    /\ noSaveQuestion

\* lines 951-961: i is the active data view
menuSlotDataViewDelete(i) ==
    /\ pc = "idle"
    /\ m_project
    /\ i \in 1..Len(dataViews)
    /\ dataViews' = SubSeq(dataViews, 1, i - 1) \o SubSeq(dataViews, i + 1, Len(dataViews))
    /\ modified' = TRUE
    /\ UNCHANGED <<isRunning, m_project, devices, ports, nMerged, importVars>>
    /\ items' = (IF i = 1 THEN <<>> ELSE items)
    /\ UNCHANGED clipboard
    /\ noSaveQuestion

\* lines 963-979: ok when a file was picked and importDataView(file) gave
\* the data view of node d
menuSlotDataViewImport(d, ok) ==
    /\ pc = "idle"
    /\ m_project
    /\ IF ok
       THEN /\ Len(dataViews) < MaxDataViews
            /\ dataViews' = dataViewAdd(dataViews, toDataView(d))
            /\ modified' = TRUE
            /\ UNCHANGED last
       ELSE /\ UNCHANGED <<dataViews, modified>>
            /\ last' = noDocument("dataView")
    /\ UNCHANGED <<isRunning, m_project, devices, ports, nMerged>>
    /\ UNCHANGED <<pc, applyToAll, dom, stat, changed>>
    /\ UNCHANGED itemVars
    /\ noSaveQuestion

\* lines 1001-1007
menuSlotRuntimeStartStop ==
    /\ pc = "idle"
    /\ isRunning' = ~isRunning
    /\ UNCHANGED <<m_project, modified, devices, ports, dataViews, nMerged, importVars>>
    /\ UNCHANGED itemVars
    /\ noSaveQuestion

\* ------------------------------------------------------- data view items
\* QVariant(): the value of a key the settings do not hold
NoValue == -1
Addresses == 0..2
Lengths == {1, 2}
ItemValues == {7}

\* MBSETTINGS: a function from the keys it holds to their values
NoSettings == [k \in {} |-> NoValue]
settingsValue(s, key) == IF key \in DOMAIN s THEN s[key] ELSE NoValue
settingsInsert(s, key, v) ==
    [k \in DOMAIN s \cup {key} |-> IF k = key THEN v ELSE s[k]]
\* QVariant::toInt()
toInt(v) == IF v = NoValue THEN 0 ELSE v

KeyValues(k) ==
    CASE k = "address" -> Addresses
      [] k = "length" -> Lengths
      [] k = "value" -> ItemValues
      [] OTHER -> 0..MaxItems
SettingsOf(keys) ==
    UNION { {s \in [K -> 0..7] : \A k \in K : s[k] \in KeyValues(k)} : K \in SUBSET keys }
\* the settings of a data view item node, and those the item dialog returns
DomItem == SettingsOf({"address", "length", "value"})
ItemSettings == SettingsOf({"address", "length", "count"})

\* mbClientDataViewItem as the builder makes it
newDataViewItem == [address |-> 0, length |-> 1, value |-> NoValue]
newDomDataViewItem == NoSettings

\* mbCoreDataViewItem::setSettings / settings / setValue
itemSetSettings(item, s) ==
    [item EXCEPT !.address = IF "address" \in DOMAIN s THEN toInt(s["address"]) ELSE @,
                 !.length = IF "length" \in DOMAIN s THEN toInt(s["length"]) ELSE @]
itemSettings(item) ==
    [k \in {"address", "length"} |-> IF k = "address" THEN item.address ELSE item.length]
setValue(item, v) == [item EXCEPT !.value = v]

\* mbCoreBuilder::fillDataViewItem / fillDomDataViewItem
coreFillDataViewItem(obj, d) == itemSetSettings(obj, d)
coreFillDomDataViewItem(d, obj) ==
    [k \in DOMAIN d \cup DOMAIN itemSettings(obj) |->
        IF k \in DOMAIN itemSettings(obj) THEN itemSettings(obj)[k] ELSE d[k]]

\* mbClientBuilder::fillDataViewItem, lines 122-127
fillDataViewItem(obj, d) ==
    setValue(coreFillDataViewItem(obj, d), settingsValue(d, "value"))

\* mutant: dom->setSettings(s) is lost, the node keeps the base settings
fillDomDataViewItemDropsValue(d, obj) == coreFillDomDataViewItem(d, obj)

\* mbClientBuilder::fillDomDataViewItem, lines 129-135
fillDomDataViewItem(d, obj) ==
    settingsInsert(coreFillDomDataViewItem(d, obj), "value", obj.value)

toDataViewItem(d) == fillDataViewItem(newDataViewItem, d)

\* mbCoreDataView::itemsInsert(items, index): index -1 appends
itemsInsert(list, new, index) ==
    IF index < 0 \/ index >= Len(list) THEN list \o new
    ELSE SubSeq(list, 1, index) \o new \o SubSeq(list, index + 1, Len(list))

\* mutant: the next address is computed from the settings offered, not from
\* the item they were applied to
RECURSIVE newItemsFromSettings(_, _)
newItemsFromSettings(p, count) ==
    IF count = 0 THEN <<>>
    ELSE LET item == itemSetSettings(newDataViewItem, p)
             next == toInt(settingsValue(p, "address")) + toInt(settingsValue(p, "length"))
         IN <<item>> \o newItemsFromSettings(settingsInsert(p, "address", next), count - 1)

\* lines 785-791: the loop of menuSlotDataViewItemNew
RECURSIVE newItems(_, _)
newItems(p, count) ==
    IF count = 0 THEN <<>>
    ELSE LET item == itemSetSettings(newDataViewItem, p)
         IN <<item>> \o newItems(settingsInsert(p, "address", item.address + item.length),
                                 count - 1)

\* lines 760-795: the dialog gave settings p (none when it was cancelled); the
\* target is the first data view, made when the project has none
menuSlotDataViewItemNew(p) ==
    /\ pc = "idle"
    /\ LET count == toInt(settingsValue(p, "count"))
       IN IF DOMAIN p = {} \/ count <= 0 \/ (Len(dataViews) = 0 /\ ~m_project)
          THEN UNCHANGED <<dataViews, modified, items, last>>
          ELSE /\ Len(items) + count <= MaxItems
               /\ \A i \in 1..count : newItems(p, count)[i].address \in Addresses
               /\ dataViews' = IF Len(dataViews) = 0
                               THEN dataViewAdd(dataViews, newDataView)
                               ELSE dataViews
               /\ items' = items \o newItems(p, count)
               /\ modified' = TRUE
               /\ last' = [kind |-> "itemNew", r |-> "none", count |-> count]
    /\ UNCHANGED <<isRunning, m_project, devices, ports, nMerged, clipboard>>
    /\ UNCHANGED <<pc, applyToAll, dom, stat, changed>>
    /\ noSaveQuestion

\* lines 1057-1073: item i is selected (0: none)
slotDataViewItemCopy(i) ==
    /\ pc = "idle"
    /\ i <= Len(items)
    /\ IF Len(dataViews) = 0 \/ i = 0
       THEN UNCHANGED <<clipboard, last>>
       ELSE /\ clipboard' = << fillDomDataViewItem(newDomDataViewItem, items[i]) >>
            /\ last' = [kind |-> "copy", r |-> "none", item |-> items[i]]
    /\ UNCHANGED <<isRunning, m_project, modified, devices, ports, dataViews, nMerged, items>>
    /\ UNCHANGED <<pc, applyToAll, dom, stat, changed>>
    /\ noSaveQuestion

\* lines 1075-1098: item i is the first selected one (0: none)
slotDataViewItemPaste(i) ==
    /\ pc = "idle"
    /\ i <= Len(items)
    /\ IF Len(dataViews) = 0 \/ clipboard = <<>>
       THEN UNCHANGED <<modified, items, last>>
       ELSE /\ Len(items) + Len(clipboard) <= MaxItems
            /\ items' = itemsInsert(items,
                                    [k \in 1..Len(clipboard) |-> toDataViewItem(clipboard[k])],
                                    i - 1)
            /\ modified' = TRUE
            /\ last' = [kind |-> "paste", r |-> "none", after |-> last.kind,
                        at |-> IF i = 0 THEN Len(items) + 1 ELSE i]
    /\ UNCHANGED <<isRunning, m_project, devices, ports, dataViews, nMerged, clipboard>>
    /\ UNCHANGED <<pc, applyToAll, dom, stat, changed>>
    /\ noSaveQuestion

\* line 1080: the clipboard text comes from elsewhere and holds item node d
clipboardSetText(d) ==
    /\ pc = "idle"
    /\ clipboard' = <<d>>
    /\ last' = [kind |-> "clipboardText", r |-> "none"]
    /\ UNCHANGED <<isRunning, m_project, modified, devices, ports, dataViews, nMerged, items>>
    /\ UNCHANGED <<pc, applyToAll, dom, stat, changed>>
    /\ noSaveQuestion

\* mbClientBuilder::fillDataViewItem applied to item i and the node of the
\* clipboard
fillItem(i) ==
    /\ pc = "idle"
    /\ i \in 1..Len(items)
    /\ clipboard # <<>>
    /\ items' = [items EXCEPT ![i] = fillDataViewItem(@, clipboard[1])]
    /\ last' = [kind |-> "fill", r |-> "none", at |-> i]
    /\ UNCHANGED <<isRunning, m_project, modified, devices, ports, dataViews, nMerged, clipboard>>
    /\ UNCHANGED <<pc, applyToAll, dom, stat, changed>>
    /\ noSaveQuestion

\* the file whose document openProject is given
DocFile == "doc"

\* lines 1346-1357: loadCore gave a project built from a document with
\* device nodes ds and port nodes ps
openProject(ds, ps) ==
    /\ pc = "idle"
    /\ setProject(TRUE, fillProjectDom(ds, ps, <<>>), FALSE, DocFile, recent)
    /\ question' = NoQuestion
    /\ changed' = FALSE
    /\ UNCHANGED <<isRunning, pc, applyToAll, dom, stat, last>>
    /\ UNCHANGED clipboard

\* lines 1359-1362
closeProject ==
    /\ pc = "idle"
    /\ setProject(FALSE, NoProject, FALSE, "", recent)
    /\ question' = NoQuestion
    /\ changed' = FALSE
    /\ UNCHANGED <<isRunning, pc, applyToAll, dom, stat, last>>
    /\ UNCHANGED clipboard

\* mutant: the file is loaded before the open project is closed, a file
\* that does not load leaves the project open
menuRecentTriggeredLoadsFirst(a, res, saved) ==
    /\ pc = "idle"
    /\ \E i \in 1..Len(m_menuRecent) : m_menuRecent[i] = a
    /\ IF a = m_actionFileRecentClear
       THEN /\ setRecent(recentClear(recent))
            /\ question' = NoQuestion
            /\ UNCHANGED <<m_project, devices, ports, dataViews, modified, nMerged,
                           changed, items, absPath>>
       ELSE /\ ~isRunning
            /\ IF FileLoads(a)
               THEN /\ setProject(TRUE, fillProject(a), FALSE, a, recentAfterSave(res, saved))
                    /\ changed' = FALSE
               ELSE /\ modified' = checkProjectModifiedAndSave(res, saved)
                    /\ absPath' = pathAfterSave(res, saved)
                    /\ setRecent(removeRecentFile(recentAfterSave(res, saved), a))
                    /\ UNCHANGED <<m_project, devices, ports, dataViews, nMerged,
                                   changed, items>>
            /\ question' = saveQuestion("recent", a, TRUE, res, saved, m_project, "none")
    /\ UNCHANGED <<isRunning, pc, applyToAll, dom, stat, last>>
    /\ UNCHANGED clipboard

\* lines 1268-1283 with openProject/closeProject (1346-1362): action a of
\* the recent menu was triggered
menuRecentTriggered(a, res, saved) ==
    /\ pc = "idle"
    /\ \E i \in 1..Len(m_menuRecent) : m_menuRecent[i] = a
    /\ IF a = m_actionFileRecentClear
       THEN /\ setRecent(recentClear(recent))
            /\ question' = NoQuestion
            /\ UNCHANGED <<m_project, devices, ports, dataViews, modified, nMerged,
                           changed, items, absPath>>
       ELSE /\ ~isRunning
            /\ IF FileLoads(a)
               THEN setProject(TRUE, fillProject(a), FALSE, a, recentAfterSave(res, saved))
               ELSE setProject(FALSE, NoProject, FALSE, "",
                               removeRecentFile(recentAfterSave(res, saved), a))
            /\ changed' = FALSE
            /\ question' = saveQuestion("recent", a, TRUE, res, saved, m_project, "none")
    /\ UNCHANGED <<isRunning, pc, applyToAll, dom, stat, last>>
    /\ UNCHANGED clipboard

\* lines 1432-1446: the window is asked to close; an accepted event ends
\* the program
closeEvent(res, saved) ==
    /\ pc = "idle"
    /\ modified' = checkProjectModifiedAndSave(res, saved)
    /\ absPath' = pathAfterSave(res, saved)
    /\ setRecent(recentAfterSave(res, saved))
    /\ LET ignore == m_project /\ modified /\ res = "Cancel"
       IN /\ question' = saveQuestion("closeEvent", "", TRUE, res, saved,
                                      m_project /\ ~ignore,
                                      IF ignore THEN "ignore" ELSE "accept")
          /\ pc' = IF ignore THEN "idle" ELSE "closed"
    /\ UNCHANGED <<isRunning, m_project, devices, ports, dataViews, nMerged>>
    /\ UNCHANGED <<applyToAll, dom, stat, last, changed>>
    /\ UNCHANGED itemVars

Buttons == {"Yes", "No"}
\* the project files File Open is given in Next
MergeFiles == {"p1", "bad"}

\* The slots that open, close and merge into a project.  Here File Open is
\* offered the files MergeFiles and no save question ends in a written file;
\* NextFile has every file and the saves.
Next ==
    \/ \E res \in Buttons : importStart(res, FALSE)
    \/ \E res \in Buttons : importNoDocument(res, FALSE)
    \/ \E d \in DomDevice, answer \in Answers : importDevice(d, answer)
    \/ importDevicesDone
    \/ \E d \in DomPort, answer \in Answers : importPort(d, answer)
    \/ importPortsDone
    \/ \E d \in DomDataView, answer \in Answers : importDataView(d, answer)
    \/ importFinish
    \/ menuSlotFileNew
    \/ \E f \in MergeFiles \cup {""}, res \in Buttons : menuSlotFileOpen(f, res, FALSE)
    \/ \E res \in Buttons \cup {"Cancel"} : menuSlotFileClose(res, FALSE)
    \/ menuSlotFileEdit
    \/ menuSlotRuntimeStartStop

\* The slots that edit an open project without a merge
NextEdit ==
    \/ menuSlotFileNew
    \/ \E f \in ProjectFiles : menuSlotFileOpen(f, "No", FALSE)
    \/ \E res \in Buttons, saved \in BOOLEAN : importNoDocument(res, saved)
    \/ \E d \in DomPort, ok \in BOOLEAN : menuSlotPortImport(d, ok)
    \/ \E s \in DomDataView : menuSlotDataViewNew(s)
    \/ menuSlotDataViewInsert
    \/ \E i \in 1..MaxDataViews : menuSlotDataViewDelete(i)
    \/ \E d \in DomDataView, ok \in BOOLEAN : menuSlotDataViewImport(d, ok)
    \/ menuSlotRuntimeStartStop

Spec == Init /\ [][Next]_vars

SpecEdit == Init /\ [][NextEdit]_vars

\* Documents of at most MaxDocNodes device nodes and MaxDocNodes port nodes
DocSeq(S) == UNION {[1..n -> S] : n \in 0..MaxDocNodes}
FilePort == [name : Names, cfg : {0}]

\* Loading project files of any content
NextLoad ==
    \/ \E ds \in DocSeq(DomDevice), ps \in DocSeq(FilePort) : openProject(ds, ps)
    \/ closeProject

SpecLoad == Init /\ [][NextLoad]_vars

\* The project before the item slots are used: none, new, or loaded from p1
InitItems ==
    /\ \E c \in {"none", "new", "p1"} :
          /\ m_project = (c # "none")
          /\ modified = (c = "new")
          /\ devices = (IF c = "p1" THEN fillProject("p1").devices ELSE <<>>)
          /\ ports = (IF c = "p1" THEN fillProject("p1").ports ELSE <<>>)
          /\ dataViews = (IF c = "p1" THEN fillProject("p1").dataViews ELSE <<>>)
          /\ absPath = (IF c = "p1" THEN "p1" ELSE "")
          /\ m_menuRecent =
                (IF c = "p1" THEN addRecentFile(NoRecent, "p1").menu ELSE NoRecent.menu)
          /\ m_recentProjectActions =
                (IF c = "p1" THEN addRecentFile(NoRecent, "p1").map ELSE NoRecent.map)
    /\ isRunning = FALSE
    /\ pc = "idle"
    /\ applyToAll = Ask
    /\ dom = <<>>
    /\ nMerged = 0
    /\ stat = NoStat
    /\ last = NoLast
    /\ changed = FALSE
    /\ items = <<>>
    /\ clipboard = <<>>
    /\ question = NoQuestion

\* The data view item slots
NextItems ==
    \/ \E p \in ItemSettings : menuSlotDataViewItemNew(p)
    \/ \E i \in 0..MaxItems : slotDataViewItemCopy(i)
    \/ \E i \in 0..MaxItems : slotDataViewItemPaste(i)
    \/ \E d \in DomItem : clipboardSetText(d)

SpecItems == InitItems /\ [][NextItems]_vars

\* The item slots and the builder's fill of an existing item
NextFill ==
    \/ NextItems
    \/ \E i \in 1..MaxItems : fillItem(i)

SpecFill == InitItems /\ [][NextFill]_vars

\* The recent list setCachedSettings (line 336) found in the settings file
CachedLists == { <<>>, <<"p1", "bad">> }

\* The window after construction and setCachedSettings
InitFile ==
    /\ isRunning = FALSE
    /\ m_project = FALSE
    /\ modified = FALSE
    /\ devices = <<>>
    /\ ports = <<>>
    /\ dataViews = <<>>
    /\ pc = "idle"
    /\ applyToAll = Ask
    /\ dom = <<>>
    /\ nMerged = 0
    /\ stat = NoStat
    /\ last = NoLast
    /\ changed = FALSE
    /\ items = <<>>
    /\ clipboard = <<>>
    /\ absPath = ""
    /\ \E ls \in CachedLists :
          /\ m_menuRecent = setCachedSettingsRecentProjects(NoRecent, ls).menu
          /\ m_recentProjectActions = setCachedSettingsRecentProjects(NoRecent, ls).map
    /\ question = NoQuestion

\* the actions the recent menu can hold
RecentActions == ProjectFiles \cup {SaveAsFile, m_actionFileRecentClear}

\* The slots that make, open, save and close a project
NextFile ==
    \/ menuSlotFileNew
    \/ \E f \in ProjectFiles \cup {""}, res \in Buttons, saved \in BOOLEAN :
            menuSlotFileOpen(f, res, saved)
    \/ \E a \in RecentActions, res \in Buttons, saved \in BOOLEAN :
            menuRecentTriggered(a, res, saved)
    \/ \E res \in Buttons \cup {"Cancel"}, saved \in BOOLEAN : menuSlotFileClose(res, saved)
    \/ \E res \in Buttons \cup {"Cancel"}, saved \in BOOLEAN : closeEvent(res, saved)
    \/ \E res \in Buttons, saved \in BOOLEAN : importNoDocument(res, saved)
    \/ menuSlotFileEdit
    \/ menuSlotRuntimeStartStop

SpecFile == InitFile /\ [][NextFile]_vars

\* Paths of a recent list kept in the settings file
FillerPaths ==
    << "r01", "r02", "r03", "r04", "r05", "r06", "r07", "r08", "r09", "r10",
       "r11", "r12", "r13", "r14", "r15", "r16", "r17", "r18", "r19", "r20",
       "r21", "r22" >>
SeededPaths == SubSeq(FillerPaths, 1, MaxSeeded)
\* the paths the calls below are given: three other files and the oldest
\* of the seeded ones
CallPaths == {"p1", "p2", "p3", FillerPaths[MaxSeeded]}

\* The window after construction and setCachedSettings on a settings file
\* that holds no recent list, or the list SeededPaths
InitRecent ==
    /\ isRunning = FALSE
    /\ m_project = FALSE
    /\ modified = FALSE
    /\ devices = <<>>
    /\ ports = <<>>
    /\ dataViews = <<>>
    /\ pc = "idle"
    /\ applyToAll = Ask
    /\ dom = <<>>
    /\ nMerged = 0
    /\ stat = NoStat
    /\ last = NoLast
    /\ changed = FALSE
    /\ items = <<>>
    /\ clipboard = <<>>
    /\ absPath = ""
    /\ \E ls \in { <<>>, SeededPaths } :
          /\ m_menuRecent = setCachedSettingsRecentProjects(NoRecent, ls).menu
          /\ m_recentProjectActions = setCachedSettingsRecentProjects(NoRecent, ls).map
    /\ question = NoQuestion

\* the variables the calls on the recent list leave alone
projectVars ==
    <<isRunning, m_project, modified, devices, ports, dataViews, pc, applyToAll, dom,
      nMerged, stat, changed, items, clipboard, absPath, question>>

\* a call of addRecentFile(path), as lines 419 and 1158 make it; `last`
\* keeps how many paths the map held and whether it held this one
callAddRecentFile(path) ==
    /\ setRecent(addRecentFile(recent, path))
    /\ last' = [kind |-> "addRecentFile", r |-> "none", path |-> path,
                n |-> Cardinality(m_recentProjectActions),
                known |-> path \in m_recentProjectActions]
    /\ UNCHANGED projectVars

\* a call of removeRecentFile(path), as line 1356 makes it
callRemoveRecentFile(path) ==
    /\ setRecent(removeRecentFile(recent, path))
    /\ last' = [kind |-> "removeRecentFile", r |-> "none", path |-> path]
    /\ UNCHANGED projectVars

\* a call of recentClear(), as line 1272 makes it
callRecentClear ==
    /\ setRecent(recentClear(recent))
    /\ last' = [kind |-> "recentClear", r |-> "none"]
    /\ UNCHANGED projectVars

\* The calls on the recent list
NextRecent ==
    \/ \E path \in CallPaths : callAddRecentFile(path)
    \/ \E path \in CallPaths : callRemoveRecentFile(path)
    \/ callRecentClear

SpecRecent == InitRecent /\ [][NextRecent]_vars

\* =================================================================== claims
Stages == {"devices", "ports", "dataViews"}
StageOf(kind) ==
    CASE kind = "device" -> "devices" [] kind = "port" -> "ports" [] OTHER -> "dataViews"
ListOf(kind) ==
    CASE kind = "device" -> devices [] kind = "port" -> ports [] OTHER -> dataViews
NewListOf(kind) ==
    CASE kind = "device" -> devices' [] kind = "port" -> ports' [] OTHER -> dataViews'
\* the settings of an entity, and of the node `last` records
Settings(kind, e) == IF kind = "device" THEN <<e.name, e.portName>> ELSE <<e.name, e.cfg>>
NodeSettings(l) == <<l.name, l.val>>
\* the entity a fresh materialization of the node gives
Materialized(l) ==
    CASE l.kind = "device" -> [name |-> l.name, portName |-> l.val]
      [] l.kind = "port" -> [name |-> l.name, cfg |-> l.val, devs |-> {}]
      [] OTHER -> [name |-> l.name, cfg |-> l.val]
\* this step is a loop iteration that handled the node last' (no Cancel)
NodeStep == pc \in Stages /\ nMerged' = nMerged + 1
\* the lists of the other two kinds are untouched by this step
OthersUnchanged(kind) ==
    /\ kind # "device" => devices' = devices
    /\ kind # "port" => ports' = ports
    /\ kind # "dataView" => dataViews' = dataViews
\* the entity found under the node's name is filled in place
FilledInPlace(l) ==
    LET old == ListOf(l.kind)
        new == NewListOf(l.kind)
        i == Index(old, l.name)
    IN /\ i # 0
       /\ Len(new) = Len(old)
       /\ Index(new, l.name) = i
       /\ Settings(l.kind, new[i]) = NodeSettings(l)
       /\ l.kind = "port" => new[i].devs = old[i].devs
       /\ \A j \in 1..Len(old) : j # i => new[j] = old[j]
       /\ OthersUnchanged(l.kind)
\* one new entity, materialized from the node, is appended
AddedNew(l) ==
    /\ NewListOf(l.kind) = Append(ListOf(l.kind), Materialized(l))
    /\ OthersUnchanged(l.kind)
NothingDone == <<devices, ports, dataViews>>' = <<devices, ports, dataViews>>

\* one step of C1
C1_MemoStep ==
    (NodeStep /\ applyToAll \in AllAnswers)
        => /\ stat'.prompts = stat.prompts
           /\ applyToAll' = applyToAll
           /\ ~last'.asked
           /\ Index(ListOf(last'.kind), last'.name) # 0 =>
                /\ last'.r = applyToAll
                /\ applyToAll = ReplaceAll => FilledInPlace(last')
                /\ applyToAll = RenameAll => AddedNew(last')
                /\ applyToAll = SkipAll => NothingDone
C1_AskedOnce ==
    (pc \in Stages /\ applyToAll = ReplaceAll /\ stat.prompts = 1)
        => stat.replaced = stat.collisions
\* C1: once an All answer is memoized for a kind, a later collision of that
\* kind in the same import does not prompt, keeps the memo and gets the
\* memoized action (Replace, Rename or Skip); so when the only prompt of a
\* loop was answered ReplaceAll, every collision of the loop was replaced.
C1_ApplyToAll == [][C1_MemoStep]_vars /\ []C1_AskedOnce
C1_Witness ==
    /\ pc = "devices"
    /\ applyToAll = ReplaceAll
    /\ stat.prompts = 1 /\ stat.collisions = 3 /\ stat.replaced = 3
    /\ Len(dom) = 3

\* one step of C2
C2_CancelStep ==
    (pc \in Stages /\ last'.r = Cancel)
        => /\ pc' = "idle"
           /\ NothingDone
           /\ last'.kind \in {"device", "port", "dataView"}
           /\ StageOf(last'.kind) = pc
\* C2: a Cancel answer ends the import at once: the slot returns (no further
\* node of any kind is handled) and the project is left as the earlier
\* iterations made it.
C2_CancelStops == [][C2_CancelStep]_vars
\* project p1 after Replace of device "a" and Cancel on port "a"
C2_Witness ==
    /\ pc = "idle"
    /\ last = [kind |-> "port", r |-> Cancel]
    /\ changed
    /\ devices = << [name |-> "a", portName |-> "b"] >>
    /\ ports = << [name |-> "a", cfg |-> 0, devs |-> {1}] >>
    /\ dataViews = << [name |-> "a", cfg |-> 0] >>

\* one step of C3
C3_ReplaceStep ==
    (NodeStep /\ last'.r \in {Replace, ReplaceAll}) => FilledInPlace(last')
\* C3: Replace or ReplaceAll fills the existing entity in place: same number
\* of entities, the same instance is found under the name, its settings are
\* the node's, nothing else changes.
C3_ReplaceInPlace == [][C3_ReplaceStep]_vars
C3_Witness ==
    /\ pc = "ports"
    /\ last = [kind |-> "port", name |-> "a", val |-> 1, asked |-> TRUE, r |-> Replace]
    /\ ports = << [name |-> "a", cfg |-> 1, devs |-> {1}] >>

\* one step of C4
C4_SkipStep ==
    (NodeStep /\ last'.r \in {Skip, SkipAll}) => NothingDone
\* C4: Skip or SkipAll drops the node: no entity is added, replaced or
\* changed by the iteration.
C4_SkipDrops == [][C4_SkipStep]_vars
C4_Witness ==
    /\ pc = "devices"
    /\ last = [kind |-> "device", name |-> "a", val |-> "b", asked |-> TRUE, r |-> Skip]
    /\ devices = << [name |-> "a", portName |-> "a"] >>

\* one step of C5
C5_RenameStep ==
    (NodeStep /\ last'.r \in {Rename, RenameAll}) => AddedNew(last')
\* C5: Rename or RenameAll leaves every existing entity as it was and appends
\* exactly one entity materialized from the node, under the node's own name.
C5_RenameAdds == [][C5_RenameStep]_vars
C5_Witness ==
    /\ pc = "dataViews"
    /\ last.r = Rename
    /\ dataViews = << [name |-> "a", cfg |-> 0], [name |-> "a", cfg |-> 1] >>

\* helpers of C6
UniqueNames(list) ==
    \A i, j \in 1..Len(list) : i # j => list[i].name # list[j].name
\* C6: no two devices, no two ports and no two data views share a name.
C6_UniqueNames ==
    UniqueNames(devices) /\ UniqueNames(ports) /\ UniqueNames(dataViews)

\* one step of C7
C7_RunningStep ==
    (isRunning /\ isRunning')
        => /\ <<m_project, devices, ports, dataViews>>' = <<m_project, devices, ports, dataViews>>
           /\ modified' = modified
\* C7: while the runtime is running no slot changes the project or its
\* modified flag.
C7_RunningNoOp == [][C7_RunningStep]_vars

\* one step of C8
C8_ReturnStep ==
    (pc \in Stages /\ pc' = "idle" /\ changed) => modified'
\* C8: when the import slot returns after it replaced or added an entity,
\* the modified flag is set.
C8_ModifiedAfterChange == [][C8_ReturnStep]_vars

\* one step of C9
C9_NoCollisionStep ==
    (NodeStep /\ Index(ListOf(last'.kind), last'.name) = 0)
        => /\ stat'.prompts = stat.prompts
           /\ ~last'.asked
           /\ applyToAll' = applyToAll
           /\ AddedNew(last')
\* C9: a node whose name is not in its list when it is reached is appended
\* without a prompt, whatever applyToAll holds.
C9_NoCollisionAdds == [][C9_NoCollisionStep]_vars
C9_Witness ==
    /\ pc \in Stages
    /\ applyToAll = SkipAll
    /\ last.r = NoCollision
    /\ Settings(last.kind, ListOf(last.kind)[Len(ListOf(last.kind))]) = NodeSettings(last)

\* helpers of C10
StageNo(p) == CASE p = "devices" -> 1 [] p = "ports" -> 2 [] p = "dataViews" -> 3 [] OTHER -> 0
PortSettings(prts) == [i \in 1..Len(prts) |-> <<prts[i].name, prts[i].cfg>>]
C10_OrderStep ==
    /\ (pc = "idle" /\ pc' # "idle") => pc' \in {"devices", "crashed"}
    /\ (pc \in Stages /\ pc' \in Stages) => StageNo(pc') \in {StageNo(pc), StageNo(pc) + 1}
    /\ NodeStep => (pc' = pc /\ StageOf(last'.kind) = pc)
    /\ (pc \in Stages /\ stat'.prompts > stat.prompts) => StageOf(last'.kind) = pc
    /\ (pc \in Stages /\ devices' # devices) => pc = "devices"
    /\ (pc \in Stages /\ PortSettings(ports') # PortSettings(ports)) => pc = "ports"
    /\ (pc \in Stages /\ dataViews' # dataViews) => pc = "dataViews"
\* C10: the import goes through devices, ports, data views in that order and
\* never back; each list is touched only in its own loop.
C10_KindOrder == [][C10_OrderStep]_vars
C10_Witness ==
    /\ pc = "dataViews"
    /\ last.kind = "dataView"
    /\ Len(dom) = 1
    /\ Len(devices) = 2 /\ Len(ports) = 2 /\ Len(dataViews) = 2

\* one step of C11
C11_KindStep ==
    /\ (pc' \in Stages /\ pc' # pc) => applyToAll' = Ask
    /\ (NodeStep /\ Index(ListOf(last'.kind), last'.name) # 0 /\ stat.prompts = 0)
            => /\ last'.asked
               /\ stat'.prompts = 1
\* C11: every loop of every import starts with the memo at Ask, so the first
\* collision of a kind in an import prompts, whatever was answered for
\* another kind or in an earlier import.
C11_MemoPerKind == [][C11_KindStep]_vars
\* a port collision prompts after an All answer in the device loop
C11_Witness ==
    /\ pc = "ports"
    /\ stat.prevAll
    /\ last.kind = "port"
    /\ last.asked
    /\ stat.prompts = 1

\* the import ran to its end: importDomProject and setModifiedFlag
FinishStep == pc = "dataViews" /\ pc' = "idle" /\ last'.r # Cancel
\* the device nodes of the document that resolve to a device and to a port
Wired(k) ==
    LET di == Index(devices', dom[k].name)
        pi == Index(ports', dom[k].portName)
    IN (di # 0 /\ pi # 0) => di \in ports'[pi].devs
\* one step of C12
C12_RewireStep == FinishStep => \A k \in 1..Len(dom) : Wired(k)
\* C12: when an import runs to its end, every device node of the document
\* whose name is a device of the project and whose portName is a port of the
\* project (old or added by this import) has that device in that port's
\* device list.
C12_ImportRewires == [][C12_RewireStep]_vars
\* new project; device "a" on port "b" imported, then port "b"
C12_Witness ==
    /\ pc = "idle"
    /\ modified
    /\ devices = << [name |-> "a", portName |-> "b"] >>
    /\ ports = << [name |-> "b", cfg |-> 1, devs |-> {1}] >>

\* C13: in a project built by fillProject every device whose portName is the
\* name of a port is in the device list of that port (the first of that
\* name), wherever the port stands in the document.
C13_LoadWires ==
    (m_project /\ nMerged = 0 /\ pc = "idle")
        => \A i \in 1..Len(devices) :
              portCore(devices[i].portName) # 0
                 => i \in ports[portCore(devices[i].portName)].devs
\* the second device of the document is wired to the second port
C13_Witness ==
    /\ m_project
    /\ devices = << [name |-> "a", portName |-> "a"], [name |-> "b", portName |-> "b"] >>
    /\ ports = << [name |-> "a", cfg |-> 0, devs |-> {1}], [name |-> "b", cfg |-> 0, devs |-> {2}] >>

\* after a load: a device is in a port's list iff its portName names that port
C14_LoadedState ==
    (m_project /\ nMerged = 0 /\ pc = "idle")
        => \A i \in 1..Len(devices) :
              IF portCore(devices[i].portName) = 0
              THEN \A p \in 1..Len(ports) : i \notin ports[p].devs
              ELSE i \in ports[portCore(devices[i].portName)].devs
\* the final pass of an import attaches only what a node names and goes on
\* after a node whose port is missing
C14_ImportStep ==
    FinishStep
        => /\ modified'
           /\ \A k \in 1..Len(dom) : Wired(k)
           /\ \A p \in 1..Len(ports) : \A di \in ports'[p].devs \ ports[p].devs :
                 \E k \in 1..Len(dom) : /\ Index(devices, dom[k].name) = di
                                        /\ Index(ports, dom[k].portName) = p
C15_OnePort ==
    (m_project /\ pc = "idle" /\ last.r # Cancel)
        => \A i \in 1..Len(devices) : \A p \in 1..Len(ports) :
              i \in ports[p].devs => portCore(devices[i].portName) = p

\* the device nodes of a name were all resolved by Skip or Rename
KeptOld(name) ==
    \A k \in 1..Len(dom) :
        dom[k].name = name => stat.devR[k] \in {Skip, SkipAll, Rename, RenameAll}
\* one step of C16
C16_KeepStep ==
    FinishStep
        => \A k \in 1..Len(dom) :
              KeptOld(dom[k].name)
                 => \A p \in 1..Len(ports) :
                       (deviceCore(dom[k].name) \in ports'[p].devs)
                          <=> (deviceCore(dom[k].name) \in ports[p].devs)
\* C16: the existing device of a colliding node resolved by Skip or Rename is
\* in the same ports' device lists after the import's final pass as before.
C16_SkipRenameKeepsPorts == [][C16_KeepStep]_vars

\* a step of menuSlotDataViewItemNew that made items
ItemNewStep == last'.kind = "itemNew" /\ items' # items
\* one step of C17
C17_BatchStep ==
    ItemNewStep
        => LET n == last'.count
               base == Len(items)
           IN /\ n > 0
              /\ Len(items') = base + n
              /\ SubSeq(items', 1, base) = items
              /\ \A i \in 1..(n - 1) :
                    items'[base + i + 1].address
                        = items'[base + i].address + items'[base + i].length
              /\ \A i \in 1..n : /\ items'[base + i].length = items'[base + 1].length
                                 /\ items'[base + i].value = items'[base + 1].value
\* C17: menuSlotDataViewItemNew with count N > 0 appends N items to the
\* target data view; each item after the first starts at the address plus
\* the length of the item before it, and the items agree on the other
\* settings.
C17_AutoIncrement == [][C17_BatchStep]_vars
\* two items of length 2 made in one batch from address 0
C17_Witness ==
    /\ last.kind = "itemNew"
    /\ last.count = 2
    /\ items = << [address |-> 0, length |-> 2, value |-> NoValue],
                  [address |-> 2, length |-> 2, value |-> NoValue] >>

\* the node a copy leaves on the clipboard holds the item's fields, the
\* value under the key "value"
C18_NodeOfItem ==
    last.kind = "copy"
        => /\ Len(clipboard) = 1
           /\ DOMAIN clipboard[1] = {"address", "length", "value"}
           /\ clipboard[1]["address"] = last.item.address
           /\ clipboard[1]["length"] = last.item.length
           /\ clipboard[1]["value"] = last.item.value
\* the item a paste makes from that node is equal to the item copied
C18_PasteStep ==
    (last.kind = "copy" /\ last'.kind = "paste") => items'[last'.at] = last.item
\* C18: fillDomDataViewItem on a fresh node followed by fillDataViewItem on a
\* fresh item gives an item equal to the first on address, length and value;
\* the value travels under the key "value".
C18_RoundTrip == []C18_NodeOfItem /\ [][C18_PasteStep]_vars
\* an item with a value was copied and pasted
C18_Witness ==
    /\ last.kind = "paste"
    /\ last.after = "copy"
    /\ Len(items) = 2
    /\ items[1] = [address |-> 1, length |-> 2, value |-> 7]
    /\ items[2] = items[1]

\* the fields of an item that a node without their keys must leave alone
KeepsMissing(d, old, new) ==
    /\ "address" \notin DOMAIN d => new.address = old.address
    /\ "length" \notin DOMAIN d => new.length = old.length
    /\ "value" \notin DOMAIN d => new.value = old.value
\* one step of C19
C19_MissingKeyStep ==
    /\ (last'.kind = "fill" /\ clipboard # <<>>)
            => /\ Len(items') = Len(items)
               /\ KeepsMissing(clipboard[1], items[last'.at], items'[last'.at])
    /\ (last'.kind = "paste" /\ items' # items)
            => KeepsMissing(clipboard[1], newDataViewItem, items'[last'.at])
\* C19: filling an item from a node that lacks a key leaves the item's field
\* of that key as it was, at its default in a fresh item; so without the key
\* "value" the item's value is not changed.
C19_MissingKeyKeepsField == [][C19_MissingKeyStep]_vars

\* a step of an import slot that got no document
NoDocumentStep == last' # last /\ last'.r = "NoDocument"
\* what such a step leaves alone, the modified flag apart
NoDocumentFrame ==
    /\ <<m_project, devices, ports, dataViews, items>>' = <<m_project, devices, ports, dataViews, items>>
    /\ stat' = stat
    /\ pc' = "idle"
C20_AmendedStep ==
    NoDocumentStep
        => /\ NoDocumentFrame
           /\ modified' => modified
           /\ modified' # modified => last'.kind = "project"
C21_MemoStep ==
    NodeStep =>
        /\ applyToAll' # applyToAll =>
             /\ last'.asked
             /\ applyToAll' \in AllAnswers
             /\ applyToAll' = last'.r
        /\ (applyToAll = Ask /\ Index(ListOf(last'.kind), last'.name) # 0) =>
             /\ last'.asked
             /\ stat'.prompts = stat.prompts + 1
             /\ stat'.collisions = stat.collisions + 1
        /\ (last'.asked /\ last'.r \in {Replace, Rename, Skip}) =>
             /\ applyToAll = Ask
             /\ applyToAll' = Ask
        /\ stat'.prompts - stat.prompts \in {0, 1}
C21_PromptsBounded == pc \in Stages => stat.prompts <= stat.collisions
\* C21: inside a loop the memo changes only on a prompt answer and only to
\* the All answer given; while the memo is Ask every collision prompts
\* exactly once; a Replace, Rename or Skip answer leaves the memo at Ask, so
\* the next collision prompts again; the prompts of a loop never outnumber
\* its collisions.
C21_MemoOnlyOnAll == [][C21_MemoStep]_vars /\ []C21_PromptsBounded
\* three collisions answered Replace, Rename, Skip: three prompts, memo Ask
C21_Witness ==
    /\ pc = "devices"
    /\ applyToAll = Ask
    /\ stat.prompts = 3 /\ stat.collisions = 3
    /\ stat.devR = <<Replace, Rename, Skip>>


\* the devices this import has appended so far (no collision, or Rename)
AddedByImport ==
    Cardinality({k \in 1..Len(stat.devR) : stat.devR[k] \in {NoCollision, Rename, RenameAll}})
\* an earlier device node of this import had the name of last' and was added
\* because the project had no device of that name
AddedEarlier ==
    \E k \in 1..Len(dom) : dom[k].name = last'.name /\ stat.devR[k] = NoCollision
\* one step of C22
C22_LiveStep ==
    NodeStep =>
        /\ (last'.r = NoCollision) <=> (Index(ListOf(last'.kind), last'.name) = 0)
        /\ last'.r = NoCollision => ~last'.asked /\ AddedNew(last')
        /\ (pc = "devices" /\ AddedEarlier) =>
             /\ last'.r # NoCollision
             /\ last'.asked <=> (applyToAll = Ask)
             /\ ~last'.asked => last'.r = applyToAll
             /\ last'.r \in {Replace, ReplaceAll} =>
                  /\ FilledInPlace(last')
                  /\ Index(devices, last'.name) > Len(devices) - AddedByImport
\* C22: a node collides exactly when the project as it is at that iteration
\* has an entity of its name; a node whose name is absent is added without a
\* prompt, and a later device node of the same name in the same document
\* collides with the device just added (prompt, or the memoized answer), a
\* Replace filling that added device in place.
C22_LiveCollision == [][C22_LiveStep]_vars
\* new project; device nodes "a" on port "a" and "a" on port "b", the second
\* answered Replace
C22_Witness ==
    /\ pc = "devices"
    /\ stat.devR = <<NoCollision, Replace>>
    /\ dom = << [name |-> "a", portName |-> "a"], [name |-> "a", portName |-> "b"] >>
    /\ devices = << [name |-> "a", portName |-> "b"] >>
    /\ last.asked


\* this step is the return of an import on a Cancel answer
CancelReturn == pc \in Stages /\ pc' = "idle" /\ last'.r = Cancel
\* device node k of the document resolves to a device and to a port of the
\* project that does not hold it
Unattached(k, prts) ==
    LET di == Index(devices, dom[k].name)
        pi == Index(prts, dom[k].portName)
    IN di # 0 /\ pi # 0 /\ di \notin prts[pi].devs
\* one step of C23
C23_CancelStep ==
    /\ CancelReturn =>
         /\ ports' = ports
         /\ devices' = devices
         /\ \A k \in 1..Len(dom) :
                Unattached(k, ports) =>
                    /\ Unattached(k, ports')
                    /\ ~Unattached(k, importDomProject(dom, devices, ports))
    /\ NodeStep =>
         /\ Len(ports') >= Len(ports)
         /\ \A i \in 1..Len(ports) : ports'[i].devs = ports[i].devs
         /\ \A i \in (Len(ports) + 1)..Len(ports') : ports'[i].devs = {}
\* C23: the loops of an import attach no device to a port, and a Cancel
\* return runs no importDomProject: a device node handled before the Cancel
\* whose device and port exist stays out of that port's device list, although
\* importDomProject on the same document would have put it there.
C23_CancelSkipsRewire == [][C23_CancelStep]_vars
\* new project; device "a" on port "a" added, port "a" added, Cancel on the
\* second port "a"
C23_Witness ==
    /\ pc = "idle"
    /\ last = [kind |-> "port", r |-> Cancel]
    /\ changed
    /\ devices = << [name |-> "a", portName |-> "a"] >>
    /\ ports = << [name |-> "a", cfg |-> 1, devs |-> {}] >>


\* one step of C24
C24_FinishStep ==
    /\ FinishStep => modified'
    /\ (FinishStep /\ ~changed) =>
         /\ modified'
         /\ devices' = devices
         /\ dataViews' = dataViews
         /\ Len(ports') = Len(ports)
\* C24: an import that runs to its end sets the modified flag whether or not
\* a loop added or replaced anything: after an empty document, or after a
\* document all of whose nodes collided and were skipped, the flag is set
\* and the project has its old devices, ports and data views.
C24_FinishSetsModified == [][C24_FinishStep]_vars
\* project file p1 opened (flag clear), then an import whose device "a" and
\* port "a" were both skipped has finished
C24_Witness ==
    /\ pc = "idle"
    /\ last = NoLast
    /\ m_project
    /\ modified
    /\ ~changed
    /\ nMerged = 2
    /\ devices = << [name |-> "a", portName |-> "a"] >>
    /\ ports = << [name |-> "a", cfg |-> 0, devs |-> {1}] >>
    /\ dataViews = << [name |-> "a", cfg |-> 0] >>

\* C25: a slot that closed or replaced a project whose modified flag was set
\* had shown the save question; the project was saved only on a Yes answer;
\* on a Cancel answer File Close left the project open and closeEvent
\* ignored the event.
C25_SaveOffered ==
    /\ (question.closed /\ question.had) => question.asked
    /\ question.saved => (question.asked /\ question.res = "Yes")
    /\ (question.by = "FileClose" /\ question.res = "Cancel") =>
            (~question.closed /\ m_project)
    /\ (question.by = "closeEvent" /\ question.res = "Cancel") =>
            (question.event = "ignore" /\ pc = "idle" /\ m_project)


\* the latest slot was File Open or a recent project action on a file
OpenedFile == question.by \in {"FileOpen", "recent"} /\ question.file # ""
\* C26: after File Open or a recent project action on a file that does not
\* load no project is open (whatever was open before) and the file is
\* neither in the recent menu nor in the map; after one on a file that loads
\* the project of that file is the current one, unmodified, and its path is
\* the first entry of the recent menu and in the map.
C26_OpenOutcome ==
    OpenedFile =>
        IF FileLoads(question.file)
        THEN /\ m_project
             /\ ~modified
             /\ absPath = question.file
             /\ devices = fillProject(question.file).devices
             /\ ports = fillProject(question.file).ports
             /\ dataViews = fillProject(question.file).dataViews
             /\ question.file \in m_recentProjectActions
             /\ m_menuRecent[1] = question.file
        ELSE /\ ~m_project
             /\ <<devices, ports, dataViews>> = << <<>>, <<>>, <<>> >>
             /\ question.file \notin m_recentProjectActions
             /\ \A i \in 1..Len(m_menuRecent) : m_menuRecent[i] # question.file
\* the recent action of "bad" was triggered while a modified project was
\* open and the question was answered No: no project is open, "bad" is gone
\* from the menu
C26_Witness ==
    /\ question.by = "recent"
    /\ question.file = "bad"
    /\ question.closed /\ question.asked /\ question.res = "No"
    /\ ~m_project
    /\ m_menuRecent = << "p1", m_actionFileRecentClear >>
    /\ m_recentProjectActions = {"p1"}


\* the path entries of the recent menu, in menu order
MenuPaths == removeAction(m_menuRecent, m_actionFileRecentClear)
\* the shape of the recent list
C27_ListShape ==
    /\ Len(MenuPaths) <= RECENT_PROJECTS_COUNT
    /\ \A i, j \in 1..Len(m_menuRecent) : m_menuRecent[i] = m_menuRecent[j] => i = j
    /\ m_recentProjectActions = {MenuPaths[i] : i \in 1..Len(MenuPaths)}
    /\ Len(m_menuRecent) = Len(MenuPaths) + 1
    /\ m_menuRecent[Len(m_menuRecent)] = m_actionFileRecentClear
    /\ last.kind = "addRecentFile" => m_menuRecent[1] = last.path
    /\ last.kind = "removeRecentFile" => last.path \notin m_recentProjectActions
    /\ last.kind = "recentClear" => m_recentProjectActions = {}
\* one step of C27: a new path added to a list of RECENT_PROJECTS_COUNT
\* paths takes the place of the last one
C27_EvictStep ==
    (/\ last'.kind = "addRecentFile"
     /\ last'.path \notin m_recentProjectActions
     /\ Len(MenuPaths) = RECENT_PROJECTS_COUNT)
        => /\ m_menuRecent' = <<last'.path>> \o SubSeq(m_menuRecent, 1, RECENT_PROJECTS_COUNT - 1)
                                \o << m_actionFileRecentClear >>
           /\ m_recentProjectActions' =
                (m_recentProjectActions \ {m_menuRecent[RECENT_PROJECTS_COUNT]})
                    \cup {last'.path}
\* C27: after any calls of addRecentFile, removeRecentFile and recentClear
\* the recent menu holds at most RECENT_PROJECTS_COUNT paths, none twice,
\* followed by the Clear action; the map holds exactly the menu's paths; the
\* path added last is first; a new path added to a full list evicts the
\* last path of the menu, the one added longest ago.
C27_RecentList == []C27_ListShape /\ [][C27_EvictStep]_vars
\* a new path was added to a full list: the list is full again, the new
\* path first, the oldest seeded path gone
C27_Witness ==
    /\ last.kind = "addRecentFile"
    /\ last.n = RECENT_PROJECTS_COUNT
    /\ ~last.known
    /\ Len(m_menuRecent) = RECENT_PROJECTS_COUNT + 1
    /\ m_menuRecent[1] = last.path
    /\ FillerPaths[MaxSeeded] \notin m_recentProjectActions
    /\ m_menuRecent[RECENT_PROJECTS_COUNT] = FillerPaths[MaxSeeded - 1]

====
